---------------------------- MODULE Spec2Model ----------------------------
(***************************************************************************)
(* BLAKE2b of chiefbiiko/blake2b.                                          *)
(*                                                                         *)
(* The repository holds two classes named Blake2b:                         *)
(*   - the TypeScript class (src/mod.ts 232-590), which keeps h, b, t, c   *)
(*     as instance fields and emulates 64-bit words by pairs of 32-bit     *)
(*     words;                                                              *)
(*   - the WebAssembly-backed class (src/mod.ts 24-190), which keeps every *)
(*     instance's state in a 216-byte slot of one shared linear memory.    *)
(*                                                                         *)
(* A uint32 is modelled as <<lo, hi>>, its two 16-bit halves, because the  *)
(* integers TLC computes with are 32-bit signed.                           *)
(***************************************************************************)
EXTENDS Integers, Sequences, FiniteSets, TLC

---------------------------------------------------------------------------
(* 32-bit words                                                            *)

W16 == 65536

\* 2^n, n in 0..16
Pow2(n) == <<1, 2, 4, 8, 16, 32, 64, 128, 256, 512, 1024, 2048, 4096, 8192,
             16384, 32768, 65536>>[n + 1]

RECURSIVE BitXor(_, _, _)
\* bitwise exclusive or of two naturals below 2^n
BitXor(x, y, n) ==
  IF n = 0 THEN 0
  ELSE ((x + y) % 2) + 2 * BitXor(x \div 2, y \div 2, n - 1)

\* exclusive-or table of bytes, XT8[x + 1][y + 1]; SubSeq makes it a tuple of
\* tuples, computed once
XT8 ==
  SubSeq([x \in 1..256 |->
            SubSeq([y \in 1..256 |-> BitXor(x - 1, y - 1, 8)], 1, 256)], 1, 256)

XOR16(x, y) ==
  256 * XT8[(x \div 256) + 1][(y \div 256) + 1] + XT8[(x % 256) + 1][(y % 256) + 1]

\* JS x ^ y on uint32 operands, stored into a Uint32Array
XOR32(x, y) == <<XOR16(x[1], y[1]), XOR16(x[2], y[2])>>

\* JS ~x, stored into a Uint32Array
NOT32(x) == <<65535 - x[1], 65535 - x[2]>>

\* JS x >>> n, 0 < n < 32
SHR32(x, n) ==
  IF n >= 16 THEN <<x[2] \div Pow2(n - 16), 0>>
  ELSE <<(x[1] \div Pow2(n)) + (x[2] % Pow2(n)) * Pow2(16 - n), x[2] \div Pow2(n)>>

\* JS x << n, 0 < n < 32, stored into a Uint32Array
SHL32(x, n) ==
  IF n >= 16 THEN <<0, (x[1] % Pow2(32 - n)) * Pow2(n - 16)>>
  ELSE <<(x[1] % Pow2(16 - n)) * Pow2(n),
         (x[2] % Pow2(16 - n)) * Pow2(n) + (x[1] \div Pow2(16 - n))>>

\* a uint32 from four bytes, least significant first
U32(b0, b1, b2, b3) == <<b0 + 256 * b1, b2 + 256 * b3>>

\* byte k (0..3) of a uint32: (x >> (8 * k)) stored into a Uint8Array
ByteOf(x, k) ==
  CASE k = 0 -> x[1] % 256
    [] k = 1 -> x[1] \div 256
    [] k = 2 -> x[2] % 256
    [] k = 3 -> x[2] \div 256

---------------------------------------------------------------------------
(* Constants of the class                                                  *)

DIGESTBYTES_MIN == 1
DIGESTBYTES_MAX == 64
KEYBYTES_MIN == 0
KEYBYTES_MAX == 64
SALTBYTES == 16
PERSONALBYTES == 16
BLOCKBYTES == 128

\* Initialization Vector, as 16 uint32 (low word first)
IV32 ==
  [i \in 0..15 |->
     <<U32(8, 201, 188, 243),   U32(103, 230, 9, 106),
       U32(59, 167, 202, 132),  U32(133, 174, 103, 187),
       U32(43, 248, 148, 254),  U32(114, 243, 110, 60),
       U32(241, 54, 29, 95),    U32(58, 245, 79, 165),
       U32(209, 130, 230, 173), U32(127, 82, 14, 81),
       U32(31, 108, 62, 43),    U32(140, 104, 5, 155),
       U32(107, 189, 65, 251),  U32(171, 217, 131, 31),
       U32(121, 33, 126, 19),   U32(25, 205, 224, 91)>>[i + 1]]

SIGMA8 ==
  << 0, 1, 2, 3, 4, 5, 6, 7, 8, 9, 10, 11, 12, 13, 14, 15,
     14, 10, 4, 8, 9, 15, 13, 6, 1, 12, 0, 2, 11, 7, 5, 3,
     11, 8, 12, 0, 5, 2, 15, 13, 10, 14, 3, 6, 7, 1, 9, 4,
     7, 9, 3, 1, 13, 12, 11, 14, 2, 6, 5, 10, 4, 0, 15, 8,
     9, 0, 5, 7, 2, 4, 10, 15, 14, 1, 11, 12, 6, 8, 3, 13,
     2, 12, 6, 10, 0, 11, 8, 3, 4, 13, 7, 5, 15, 14, 1, 9,
     12, 5, 1, 15, 14, 13, 4, 10, 0, 7, 6, 3, 9, 2, 8, 11,
     13, 11, 7, 14, 12, 1, 3, 9, 5, 0, 15, 4, 8, 6, 2, 10,
     6, 15, 14, 9, 11, 3, 0, 8, 12, 2, 13, 7, 1, 4, 10, 5,
     10, 2, 8, 4, 7, 6, 1, 5, 15, 11, 9, 14, 3, 12, 13, 0,
     0, 1, 2, 3, 4, 5, 6, 7, 8, 9, 10, 11, 12, 13, 14, 15,
     14, 10, 4, 8, 9, 15, 13, 6, 1, 12, 0, 2, 11, 7, 5, 3 >>

\* offsets into the uint32 buffer: SIGMA82[i] = 2 * SIGMA8[i], i from 0
SIGMA82 == [i \in 0..191 |-> 2 * SIGMA8[i + 1]]

---------------------------------------------------------------------------
(* The TypeScript class Blake2b (src/mod.ts 232-590)                       *)
(*                                                                         *)
(* An instance is a record of the class's fields digestLength, v, m, b, h, *)
(* t, c.  Two history fields are added to it for the properties below:     *)
(* log, the list of compressions performed so far (the block, the counter  *)
(* and the last-block flag each one saw), and hi, the highest index of b   *)
(* that a byte store has used (-1 when nothing was stored).                *)

\* f itself, computed at every argument (f is a function on 0..n)
Tab(f) == [f EXCEPT ![0] = @]

\* F(x), with x computed once, before F is applied to it
Let(x, F(_)) == CHOOSE r \in {F(y) : y \in {x}} : TRUE

\* an optional argument: absent, or present with a byte sequence
None == [has |-> FALSE, val |-> <<>>]
Some(s) == [has |-> TRUE, val |-> s]

\* new Uint8Array(n), new Uint32Array(n)
Zeros8(n) == Tab([i \in 0..(n - 1) |-> 0])
Zeros32(n) == Tab([i \in 0..(n - 1) |-> <<0, 0>>])

\* Little-endian byte access; arr is a function on byte offsets from 0
B2B_GET32(arr, i) == U32(arr[i], arr[i + 1], arr[i + 2], arr[i + 3])

\* the 64-bit addition without the carry from the low word into the high word
ADD64AANoCarry(v, a, b) ==
  LET l0 == v[a][1] + v[b][1]
      l1 == v[a][2] + v[b][2] + (l0 \div W16)
      h0 == v[a + 1][1] + v[b + 1][1]
      h1 == v[a + 1][2] + v[b + 1][2] + (h0 \div W16)
  IN  [v EXCEPT ![a] = <<l0 % W16, l1 % W16>>,
                ![a + 1] = <<h0 % W16, h1 % W16>>]

\* 64-bit unsigned addition: v[a,a+1] += v[b,b+1]
ADD64AA(v, a, b) ==
  LET l0 == v[a][1] + v[b][1]
      l1 == v[a][2] + v[b][2] + (l0 \div W16)
      \* o0 >= 0x100000000 exactly when l1 overflows its 16 bits
      h0 == v[a + 1][1] + v[b + 1][1] + (IF l1 >= W16 THEN 1 ELSE 0)
      h1 == v[a + 1][2] + v[b + 1][2] + (h0 \div W16)
  IN  [v EXCEPT ![a] = <<l0 % W16, l1 % W16>>,
                ![a + 1] = <<h0 % W16, h1 % W16>>]

\* the 64-bit addition of a constant without the carry into the high word
ADD64ACNoCarry(v, a, b0, b1) ==
  LET l0 == v[a][1] + b0[1]
      l1 == v[a][2] + b0[2] + (l0 \div W16)
      h0 == v[a + 1][1] + b1[1]
      h1 == v[a + 1][2] + b1[2] + (h0 \div W16)
  IN  [v EXCEPT ![a] = <<l0 % W16, l1 % W16>>,
                ![a + 1] = <<h0 % W16, h1 % W16>>]

\* 64-bit unsigned addition: v[a,a+1] += b, b0 the low and b1 the high word
\* (b0 and b1 come from the Uint32Array m, so the b0 < 0 branch is dead)
ADD64AC(v, a, b0, b1) ==
  LET l0 == v[a][1] + b0[1]
      l1 == v[a][2] + b0[2] + (l0 \div W16)
      h0 == v[a + 1][1] + b1[1] + (IF l1 >= W16 THEN 1 ELSE 0)
      h1 == v[a + 1][2] + b1[2] + (h0 \div W16)
  IN  [v EXCEPT ![a] = <<l0 % W16, l1 % W16>>,
                ![a + 1] = <<h0 % W16, h1 % W16>>]

\* G mixing function on the working vector v with message vector m
B2B_G(v, m, a, b, c, d, ix, iy) ==
  Let(ADD64AC(ADD64AA(v, a, b), a, m[ix], m[ix + 1]), LAMBDA v1 :
  \* v[d,d+1] = (v[d,d+1] xor v[a,a+1]) rotated to the right by 32 bits
  Let([v1 EXCEPT ![d] = XOR32(v1[d + 1], v1[a + 1]),
                 ![d + 1] = XOR32(v1[d], v1[a])], LAMBDA v2 :
  Let(ADD64AA(v2, c, d), LAMBDA v3 :
  \* v[b,b+1] = (v[b,b+1] xor v[c,c+1]) rotated right by 24 bits
  Let(<<XOR32(v3[b], v3[c]), XOR32(v3[b + 1], v3[c + 1])>>, LAMBDA p :
  Let([v3 EXCEPT ![b] = XOR32(SHR32(p[1], 24), SHL32(p[2], 8)),
                 ![b + 1] = XOR32(SHR32(p[2], 24), SHL32(p[1], 8))], LAMBDA v4 :
  Let(ADD64AC(ADD64AA(v4, a, b), a, m[iy], m[iy + 1]), LAMBDA v5 :
  \* v[d,d+1] = (v[d,d+1] xor v[a,a+1]) rotated right by 16 bits
  Let(<<XOR32(v5[d], v5[a]), XOR32(v5[d + 1], v5[a + 1])>>, LAMBDA q :
  Let([v5 EXCEPT ![d] = XOR32(SHR32(q[1], 16), SHL32(q[2], 16)),
                 ![d + 1] = XOR32(SHR32(q[2], 16), SHL32(q[1], 16))], LAMBDA v6 :
  Let(ADD64AA(v6, c, d), LAMBDA v7 :
  \* v[b,b+1] = (v[b,b+1] xor v[c,c+1]) rotated right by 63 bits
  Let(<<XOR32(v7[b], v7[c]), XOR32(v7[b + 1], v7[c + 1])>>, LAMBDA r :
  [v7 EXCEPT ![b] = XOR32(SHR32(r[2], 31), SHL32(r[1], 1)),
             ![b + 1] = XOR32(SHR32(r[1], 31), SHL32(r[2], 1))]))))))))))

\* the eight B2B_G calls of one round with the diagonals before the columns
GCALLSDiagonalsFirst ==
  << <<0, 10, 20, 30>>, <<2, 12, 22, 24>>, <<4, 14, 16, 26>>, <<6, 8, 18, 28>>,
     <<0, 8, 16, 24>>, <<2, 10, 18, 26>>, <<4, 12, 20, 28>>, <<6, 14, 22, 30>> >>

\* the (a, b, c, d) of the eight B2B_G calls of one round, in call order
GCALLS ==
  << <<0, 8, 16, 24>>, <<2, 10, 18, 26>>, <<4, 12, 20, 28>>, <<6, 14, 22, 30>>,
     <<0, 10, 20, 30>>, <<2, 12, 22, 24>>, <<4, 14, 16, 26>>, <<6, 8, 18, 28>> >>

RECURSIVE Mix(_, _, _, _)
\* the B2B_G calls j, j+1, ..., 7 of round i
Mix(v, m, i, j) ==
  IF j = 8 THEN v
  ELSE Let(B2B_G(v, m, GCALLS[j + 1][1], GCALLS[j + 1][2], GCALLS[j + 1][3],
                 GCALLS[j + 1][4], SIGMA82[i * 16 + 2 * j],
                 SIGMA82[i * 16 + 2 * j + 1]),
           LAMBDA w : Mix(w, m, i, j + 1))

RECURSIVE Rounds(_, _, _)
\* twelve rounds of mixing: the rounds i, i+1, ..., 11
Rounds(v, m, i) ==
  IF i = 12 THEN v
  ELSE Let(Mix(v, m, i, 0), LAMBDA w : Rounds(w, m, i + 1))

\* the counter t as the two uint32 that are xored into v[24] and v[25]
\* (t stays below 2^31 here, so t / 0x100000000 stores 0)
TLow(t) == <<t % W16, (t \div W16) % W16>>
THigh(t) == <<0, 0>>

\* the working vector after "init work variables", the offset and the flag
InitV(h, t, last) ==
  Tab([i \in 0..31 |->
     CASE i < 16 -> h[i]
       [] i = 24 -> XOR32(IV32[8], TLow(t))
       [] i = 25 -> XOR32(IV32[9], THigh(t))
       [] i = 28 -> IF last THEN NOT32(IV32[12]) ELSE IV32[12]
       [] i = 29 -> IF last THEN NOT32(IV32[13]) ELSE IV32[13]
       [] OTHER  -> IV32[i - 16]])

\* the message vector: the buffer's 32 little-endian words
LoadM(b) == Tab([i \in 0..31 |-> B2B_GET32(b, 4 * i)])

\* the compression of the block b into h under the counter t and the
\* last-block flag: the vectors v and m it leaves and the new h
Compress(h, b, t, last) ==
  Let(LoadM(b), LAMBDA m :
  Let(Rounds(InitV(h, t, last), m, 0), LAMBDA v :
  [v |-> v,
   m |-> m,
   h |-> Tab([i \in 0..15 |-> XOR32(XOR32(h[i], v[i]), v[i + 16])])]))

\* a compression that leaves out "this.v[i + 16] = Blake2b.IV32[i]" and so
\* starts from what the previous compression left in v[16..31]
blake2bCompressStale(self, last) ==
  Let(LoadM(self.b), LAMBDA m :
  Let(Rounds(Tab([i \in 0..31 |->
                CASE i < 16 -> self.h[i]
                  [] i = 24 -> XOR32(self.v[24], TLow(self.t))
                  [] i = 25 -> XOR32(self.v[25], THigh(self.t))
                  [] i = 28 -> IF last THEN NOT32(self.v[28]) ELSE self.v[28]
                  [] i = 29 -> IF last THEN NOT32(self.v[29]) ELSE self.v[29]
                  [] OTHER  -> self.v[i]]), m, 0), LAMBDA v :
  [self EXCEPT
     !.v = v,
     !.m = m,
     !.h = Tab([i \in 0..15 |-> XOR32(XOR32(self.h[i], v[i]), v[i + 16])]),
     !.log = Append(@, [blk |-> self.b, t |-> self.t, last |-> last])]))

\* Compression function. 'last' flag indicates last block.
blake2bCompress(self, last) ==
  Let(Compress(self.h, self.b, self.t, last), LAMBDA r :
  [self EXCEPT
     !.v = r.v,
     !.m = r.m,
     !.h = r.h,
     !.log = Append(@, [blk |-> self.b, t |-> self.t, last |-> last])])

\* the store "this.b[this.c++] = x"
StoreByte(self, x) ==
  [self EXCEPT !.b[self.c] = x,
               !.c = self.c + 1,
               !.hi = IF self.c > @ THEN self.c ELSE @]

\* an UpdateByte that leaves out "add counters"
UpdateByteNoCount(self, x) ==
  IF self.c = 128
  THEN Let([blake2bCompress(self, FALSE) EXCEPT !.c = 0],
           LAMBDA s : StoreByte(s, x))
  ELSE StoreByte(self, x)

\* an UpdateByte that takes the buffer for full one byte late
UpdateByteLate(self, x) ==
  IF self.c > 128
  THEN Let([blake2bCompress([self EXCEPT !.t = self.t + self.c], FALSE)
              EXCEPT !.c = 0],
           LAMBDA s : StoreByte(s, x))
  ELSE StoreByte(self, x)

\* one turn of the loop of blake2bUpdate: the byte x arrives
UpdateByte(self, x) ==
  IF self.c = 128
  THEN Let([blake2bCompress([self EXCEPT !.t = self.t + self.c], FALSE)
              EXCEPT !.c = 0],
           LAMBDA s : StoreByte(s, x))
  ELSE StoreByte(self, x)

RECURSIVE UpdateRange(_, _, _, _)
\* the turns i = lo, ..., hi - 1 of the loop of blake2bUpdate
UpdateRange(self, input, lo, hi) ==
  IF hi <= lo THEN self
  ELSE IF hi = lo + 1 THEN UpdateByte(self, input[lo + 1])
  ELSE Let(UpdateRange(self, input, lo, (lo + hi) \div 2),
           LAMBDA s : UpdateRange(s, input, (lo + hi) \div 2, hi))

\* a blake2bUpdate whose loop starts at the second byte of input
blake2bUpdateSkip(self, input) == UpdateRange(self, input, 1, Len(input))

\* a blake2bUpdate that compresses a full buffer on entry, before it looks at
\* input
blake2bUpdateEager(self, input) ==
  Let(IF self.c = 128
      THEN [blake2bCompress([self EXCEPT !.t = self.t + self.c], FALSE)
              EXCEPT !.c = 0]
      ELSE self,
      LAMBDA s : UpdateRange(s, input, 0, Len(input)))

\* Updates a BLAKE2b streaming hash with the byte sequence input
blake2bUpdate(self, input) == UpdateRange(self, input, 0, Len(input))

\* the buffer after "fill up with zeros"
ZeroFill(b, c) == Tab([i \in 0..127 |-> IF i >= c THEN 0 ELSE b[i]])

\* a blake2bDigest whose output loop runs over all 64 bytes of h
blake2bDigestFull(self, out) ==
  Let(blake2bCompress(
        [self EXCEPT !.t = self.t + self.c,
                     !.b = ZeroFill(self.b, self.c),
                     !.c = IF self.c < 128 THEN 128 ELSE self.c,
                     !.hi = IF self.c < 128 /\ @ < 127 THEN 127 ELSE @],
        TRUE),
      LAMBDA s :
  [self |-> s,
   out  |-> [j \in 1..Len(out) |->
               IF j - 1 < 64
               THEN ByteOf(s.h[(j - 1) \div 4], (j - 1) % 4)
               ELSE out[j]]])

\* a blake2bDigest that leaves out "fill up with zeros"
blake2bDigestNoFill(self, out) ==
  Let(blake2bCompress(
        [self EXCEPT !.t = self.t + self.c,
                     !.c = IF self.c < 128 THEN 128 ELSE self.c,
                     !.hi = IF self.c < 128 /\ @ < 127 THEN 127 ELSE @],
        TRUE),
      LAMBDA s :
  [self |-> s,
   out  |-> [j \in 1..Len(out) |->
               IF j - 1 < s.digestLength
               THEN ByteOf(s.h[(j - 1) \div 4], (j - 1) % 4)
               ELSE out[j]]])

\* Completes a BLAKE2b streaming hash: the instance and the caller's buffer
\* out (a byte sequence) after the call
blake2bDigest(self, out) ==
  Let(blake2bCompress(
        [self EXCEPT !.t = self.t + self.c,
                     !.b = ZeroFill(self.b, self.c),
                     !.c = IF self.c < 128 THEN 128 ELSE self.c,
                     !.hi = IF self.c < 128 /\ @ < 127 THEN 127 ELSE @],
        TRUE),
      LAMBDA s :
  [self |-> s,
   out  |-> [j \in 1..Len(out) |->
               IF j - 1 < s.digestLength
               THEN ByteOf(s.h[(j - 1) \div 4], (j - 1) % 4)
               ELSE out[j]]])

\* the parameter block the constructor fills in
ParameterBlock(digestLength, key, salt, personal) ==
  Tab([i \in 0..63 |->
     CASE i = 0 -> digestLength
       [] i = 1 -> IF key.has THEN Len(key.val) ELSE 0
       [] i = 2 -> 1
       [] i = 3 -> 1
       [] i >= 48 /\ personal.has /\ i < 48 + Len(personal.val) ->
            personal.val[i - 47]
       [] i >= 32 /\ salt.has /\ i < 32 + Len(salt.val) -> salt.val[i - 31]
       [] OTHER -> 0])

\* the constructor's assertions without the one on the largest digest length
CtorErrorNoMax(digestLength, key, salt, personal) ==
  CASE digestLength < DIGESTBYTES_MIN -> "InvalidDigestLength"
    [] key.has /\ Len(key.val) < KEYBYTES_MIN -> "InvalidKeyLength"
    [] key.has /\ Len(key.val) > KEYBYTES_MAX -> "InvalidKeyLength"
    [] salt.has /\ Len(salt.val) # SALTBYTES -> "InvalidSaltLength"
    [] personal.has /\ Len(personal.val) # PERSONALBYTES -> "InvalidPersonalLength"
    [] OTHER -> "ok"

\* the constructor's assertions with the key bound off by one
CtorErrorKeyOff(digestLength, key, salt, personal) ==
  CASE digestLength < DIGESTBYTES_MIN -> "InvalidDigestLength"
    [] digestLength > DIGESTBYTES_MAX -> "InvalidDigestLength"
    [] key.has /\ Len(key.val) < KEYBYTES_MIN -> "InvalidKeyLength"
    [] key.has /\ Len(key.val) > KEYBYTES_MAX + 1 -> "InvalidKeyLength"
    [] salt.has /\ Len(salt.val) # SALTBYTES -> "InvalidSaltLength"
    [] personal.has /\ Len(personal.val) # PERSONALBYTES -> "InvalidPersonalLength"
    [] OTHER -> "ok"

\* the constructor's assertions with a salt that may be shorter than SALTBYTES
CtorErrorShortSalt(digestLength, key, salt, personal) ==
  CASE digestLength < DIGESTBYTES_MIN -> "InvalidDigestLength"
    [] digestLength > DIGESTBYTES_MAX -> "InvalidDigestLength"
    [] key.has /\ Len(key.val) < KEYBYTES_MIN -> "InvalidKeyLength"
    [] key.has /\ Len(key.val) > KEYBYTES_MAX -> "InvalidKeyLength"
    [] salt.has /\ Len(salt.val) > SALTBYTES -> "InvalidSaltLength"
    [] personal.has /\ Len(personal.val) # PERSONALBYTES -> "InvalidPersonalLength"
    [] OTHER -> "ok"

\* the constructor's assertions with a personalisation that may be shorter than
\* PERSONALBYTES
CtorErrorShortPersonal(digestLength, key, salt, personal) ==
  CASE digestLength < DIGESTBYTES_MIN -> "InvalidDigestLength"
    [] digestLength > DIGESTBYTES_MAX -> "InvalidDigestLength"
    [] key.has /\ Len(key.val) < KEYBYTES_MIN -> "InvalidKeyLength"
    [] key.has /\ Len(key.val) > KEYBYTES_MAX -> "InvalidKeyLength"
    [] salt.has /\ Len(salt.val) # SALTBYTES -> "InvalidSaltLength"
    [] personal.has /\ Len(personal.val) > PERSONALBYTES -> "InvalidPersonalLength"
    [] OTHER -> "ok"

\* the assertion of the constructor that fails, named as the specification
\* names the failure, or "ok"
CtorError(digestLength, key, salt, personal) ==
  CASE digestLength < DIGESTBYTES_MIN -> "InvalidDigestLength"
    [] digestLength > DIGESTBYTES_MAX -> "InvalidDigestLength"
    [] key.has /\ Len(key.val) < KEYBYTES_MIN -> "InvalidKeyLength"
    [] key.has /\ Len(key.val) > KEYBYTES_MAX -> "InvalidKeyLength"
    [] salt.has /\ Len(salt.val) # SALTBYTES -> "InvalidSaltLength"
    [] personal.has /\ Len(personal.val) # PERSONALBYTES -> "InvalidPersonalLength"
    [] OTHER -> "ok"

\* a hash state made from the parameter block read as big-endian words
InitHBigEndian(pb) ==
  Tab([i \in 0..15 |->
     XOR32(IV32[i],
           U32(pb[i * 4 + 3], pb[i * 4 + 2], pb[i * 4 + 1], pb[i * 4]))])

\* the hash state the constructor's loop stores
InitH(pb) == Tab([i \in 0..15 |-> XOR32(IV32[i], B2B_GET32(pb, i * 4))])

\* the instance before the constructor's key branch
Fresh(digestLength, key, salt, personal) ==
  [digestLength |-> digestLength,
   v |-> Zeros32(32),
   m |-> Zeros32(32),
   b |-> Zeros8(128),
   h |-> InitH(ParameterBlock(digestLength, key, salt, personal)),
   t |-> 0,
   c |-> 0,
   log |-> <<>>,
   hi |-> -1]

\* a constructor whose key branch leaves out "this.c = 128"
Blake2bOpenKeyBlock(digestLength, key, salt, personal) ==
  IF key.has
  THEN blake2bUpdate(Fresh(digestLength, key, salt, personal), key.val)
  ELSE Fresh(digestLength, key, salt, personal)

\* the instance the constructor leaves, its assertions passed
Blake2b(digestLength, key, salt, personal) ==
  IF key.has
  THEN [blake2bUpdate(Fresh(digestLength, key, salt, personal), key.val)
          EXCEPT !.c = 128]
  ELSE Fresh(digestLength, key, salt, personal)

---------------------------------------------------------------------------
(* The WebAssembly-backed class Blake2b (src/mod.ts 24-190)                *)
(*                                                                         *)
(* w is the class's static state: [memory, freeList, head], memory the     *)
(* bytes of the linear memory below MemTop (the memory has 655360 bytes;   *)
(* no call of the behaviours below touches a byte from MemTop on, so the   *)
(* realloc branches are not taken).  An instance's slot at pointer holds   *)
(* b at 0..127, h at 128..191, t at 192, c at 200 and the last-block flag  *)
(* f at 208, t, c and f as 64-bit little-endian words.                     *)

\* the instances of a behaviour, constructed in this order
Ids == {1, 2}

\* the initial head, and the bytes of a slot
HeadStart == 64
SlotBytes == 216

\* lengths of the byte sequences handed to update
WChunkLens == {BLOCKBYTES + 1}

\* every slot and the longest staged input lie below MemTop
MemTop == HeadStart + SlotBytes * Cardinality(Ids) + BLOCKBYTES + 1

\* memory.set(bytes, at)
Poke(mem, at, bytes) ==
  Tab([a \in 0..(MemTop - 1) |->
         IF a >= at /\ a < at + Len(bytes) THEN bytes[a - at + 1] ELSE mem[a]])

\* n zero bytes
ZeroBytes(n) == [j \in 1..n |-> 0]

\* the 64-bit little-endian word of a number below 2^31, and the number of
\* the word at a (the counters stay below 2^31 here)
Le64(n) ==
  <<n % 256, (n \div 256) % 256, (n \div 65536) % 256, n \div 16777216,
    0, 0, 0, 0>>
Ld64(mem, a) ==
  mem[a] + 256 * mem[a + 1] + 65536 * mem[a + 2] + 16777216 * mem[a + 3]

\* the 64 bytes of the hash state h
HBytes(h) == [j \in 1..64 |-> ByteOf(h[(j - 1) \div 4], (j - 1) % 4)]

\* blake2b_compress(ptr): compresses the slot's b into its h under its t
\* and its flag f (f is 0, or all ones once blake2b_final has run)
blake2b_compress(mem, ptr) ==
  Let(Compress(Tab([i \in 0..15 |-> B2B_GET32(mem, ptr + 128 + 4 * i)]),
               Tab([i \in 0..127 |-> mem[ptr + i]]),
               Ld64(mem, ptr + 192),
               mem[ptr + 208] = 255),
      LAMBDA r : Poke(mem, ptr + 128, HBytes(r.h)))

\* blake2b_init(ptr, outlen): zeroes b, t, c, f and stores h, the
\* initialization vector xor the parameter block at 0..63
blake2b_init(mem, ptr, outlen) ==
  Poke(mem, ptr,
       ZeroBytes(128)
         \o HBytes([i \in 0..15 |-> XOR32(IV32[i], B2B_GET32(mem, 4 * i))])
         \o ZeroBytes(24))

\* the store of the byte at address a into b at the fill pointer
WStoreByte(st, ptr, a) ==
  [mem |-> [st.mem EXCEPT ![ptr + st.c] = st.mem[a]], c |-> st.c + 1]

\* one turn of the loop of blake2b_update: the byte at address a arrives;
\* st is [mem, c], c the fill pointer the function holds in a local
WUpdateByte(st, ptr, a) ==
  IF st.c = 128
  THEN Let(Poke(st.mem, ptr + 192, Le64(Ld64(st.mem, ptr + 192) + 128)),
           LAMBDA m1 :
       Let([mem |-> blake2b_compress(m1, ptr), c |-> 0],
           LAMBDA s : WStoreByte(s, ptr, a)))
  ELSE WStoreByte(st, ptr, a)

RECURSIVE WUpdateRange(_, _, _, _)
\* the turns for the bytes at lo, ..., hi - 1
WUpdateRange(st, ptr, lo, hi) ==
  IF hi <= lo THEN st
  ELSE IF hi = lo + 1 THEN WUpdateByte(st, ptr, lo)
  ELSE Let(WUpdateRange(st, ptr, lo, (lo + hi) \div 2),
           LAMBDA s : WUpdateRange(s, ptr, (lo + hi) \div 2, hi))

\* blake2b_update(ptr, in, in_end)
blake2b_update(mem, ptr, in, in_end) ==
  Let([mem |-> mem, c |-> Ld64(mem, ptr + 200)], LAMBDA st0 :
  Let(WUpdateRange(st0, ptr, in, in_end), LAMBDA st :
  Poke(st.mem, ptr + 200, Le64(st.c))))

\* blake2b_final(ptr): adds c to t, sets f, pads b with zeros, compresses
blake2b_final(mem, ptr) ==
  Let(Ld64(mem, ptr + 200), LAMBDA c :
  Let(Poke(Poke(mem, ptr + 192,
                Le64(Ld64(mem, ptr + 192) + c) \o Le64(BLOCKBYTES)
                  \o [j \in 1..8 |-> 255]),
           ptr + c, ZeroBytes(BLOCKBYTES - c)),
      LAMBDA m1 : blake2b_compress(m1, ptr)))

\* an update that stages input at the first slot instead of at head
updateAtFirstSlot(w, pointer, input) ==
  Let(Poke(w.memory, HeadStart, input), LAMBDA m1 :
  [w EXCEPT !.memory =
     blake2b_update(m1, pointer, HeadStart, HeadStart + Len(input))])

\* update(input) of the instance at pointer: stages input at head
update(w, pointer, input) ==
  Let(Poke(w.memory, w.head, input), LAMBDA m1 :
  [w EXCEPT !.memory =
     blake2b_update(m1, pointer, w.head, w.head + Len(input))])

\* the assertion of the constructor that fails, or "ok"
WCtorError(bytes, key, salt, personal) ==
  CASE bytes < DIGESTBYTES_MIN -> "InvalidDigestLength"
    [] bytes > DIGESTBYTES_MAX -> "InvalidDigestLength"
    [] key.has /\ Len(key.val) > KEYBYTES_MAX -> "InvalidKeyLength"
    [] salt.has /\ Len(salt.val) # SALTBYTES -> "InvalidSaltLength"
    [] personal.has /\ Len(personal.val) # PERSONALBYTES -> "InvalidPersonalLength"
    [] OTHER -> "ok"

\* the 64 bytes the constructor stores at 0..63
WParams(bytes, key, salt, personal) ==
  [j \in 1..64 |->
     CASE j = 1 -> bytes
       [] j = 2 -> IF key.has THEN Len(key.val) ELSE 0
       [] j = 3 -> 1
       [] j = 4 -> 1
       [] j > 32 /\ j <= 48 /\ salt.has -> salt.val[j - 32]
       [] j > 48 /\ personal.has -> personal.val[j - 48]
       [] OTHER -> 0]

\* an allocation that reads the last free pointer without removing it
AllocKeep(w) ==
  IF Len(w.freeList) = 0
  THEN [pointer |-> w.head, w |-> [w EXCEPT !.head = w.head + SlotBytes]]
  ELSE [pointer |-> w.freeList[Len(w.freeList)], w |-> w]

\* the static state with a slot taken from the free list, which is first
\* given the slot at head when it is empty, and that slot's pointer
Alloc(w) ==
  IF Len(w.freeList) = 0
  THEN [pointer |-> w.head, w |-> [w EXCEPT !.head = w.head + SlotBytes]]
  ELSE [pointer |-> w.freeList[Len(w.freeList)],
        w |-> [w EXCEPT !.freeList = SubSeq(@, 1, Len(@) - 1)]]

\* the key branch of the constructor
KeyBranch(w, pointer, key) ==
  Let(update(w, pointer, key), LAMBDA w2 :
  [w2 EXCEPT !.memory =
     [Poke(w2.memory, w2.head, ZeroBytes(Len(key))) EXCEPT ![pointer + 200] = 128]])

\* a constructor that leaves out "memory.fill(0, 0, 64)"
WBlake2bNoFill(w, bytes, key, salt, personal) ==
  Let(Alloc(w), LAMBDA al :
  Let([al.w.memory EXCEPT ![0] = bytes,
                          ![1] = IF key.has THEN Len(key.val) ELSE 0,
                          ![2] = 1,
                          ![3] = 1], LAMBDA m0 :
  Let(IF salt.has THEN Poke(m0, 32, salt.val) ELSE m0, LAMBDA ms :
  Let(IF personal.has THEN Poke(ms, 48, personal.val) ELSE ms, LAMBDA m1 :
  Let([al.w EXCEPT !.memory = blake2b_init(m1, al.pointer, bytes)],
      LAMBDA w1 :
  [pointer |-> al.pointer,
   w |-> IF key.has THEN KeyBranch(w1, al.pointer, key.val) ELSE w1])))))

\* the constructor, its assertions passed: the static state it leaves and
\* the pointer of the new instance
WBlake2b(w, bytes, key, salt, personal) ==
  Let(Alloc(w), LAMBDA al :
  Let(Poke(al.w.memory, 0, WParams(bytes, key, salt, personal)), LAMBDA m1 :
  Let([al.w EXCEPT !.memory = blake2b_init(m1, al.pointer, bytes)],
      LAMBDA w1 :
  [pointer |-> al.pointer,
   w |-> IF key.has THEN KeyBranch(w1, al.pointer, key.val) ELSE w1])))

\* digest() of a not yet finalized instance at pointer with digest length
\* bytes: the static state it leaves and the digest
digest(w, pointer, bytes) ==
  Let(blake2b_final(w.memory, pointer), LAMBDA m1 :
  [w |-> [w EXCEPT !.freeList = Append(@, pointer), !.memory = m1],
   out |-> [j \in 1..bytes |-> m1[pointer + 128 + j - 1]]])

---------------------------------------------------------------------------
(* One instance of the TypeScript class and its caller                     *)

\* the most write calls and the most successful read calls of a behaviour
MaxWrites == 2
MaxReads == 2

\* what a buffer handed to read holds before the call
OutFill == 170

\* the caller's bytes: byte p of the stream it writes, and the n bytes from p
MsgByte(p) == (97 + p) % 256
Chunk(p, n) == [j \in 1..n |-> MsgByte(p + j - 1)]

\* lengths of the byte sequences handed to write
ChunkLens == {0, 3, BLOCKBYTES}

\* keys, salts and personalisations of n bytes
Bytes(n, first) == [j \in 1..n |-> (first + j - 1) % 256]

\* the constructor arguments tried: <<digestLength, key, salt, personal>>
Configs ==
  { <<64, None, None, None>>,
    <<64, Some(<<>>), None, None>>,
    <<32, Some(Bytes(1, 7)), None, None>>,
    <<1, Some(Bytes(KEYBYTES_MAX, 0)), Some(Bytes(SALTBYTES, 16)),
      Some(Bytes(PERSONALBYTES, 32))>>,
    <<DIGESTBYTES_MIN - 1, None, None, None>>,
    <<DIGESTBYTES_MAX + 1, None, None, None>>,
    <<64, Some(Bytes(KEYBYTES_MAX + 1, 0)), None, None>>,
    <<64, None, Some(Bytes(SALTBYTES - 1, 0)), None>>,
    <<64, None, None, Some(Bytes(PERSONALBYTES + 1, 0))>> }

\* lengths of the buffers handed to read, relative to digestLength
OutDeltas == {-1, 0, 2}

VARIABLES
  self,      \* the instance's fields (and its two history fields)
  alive,     \* TRUE once a constructor call has returned an instance
  cfg,       \* history: the arguments the instance was constructed with (in
             \* SpecCtor: the arguments the constructors are called with)
  absorbed,  \* history: the bytes of all write calls that returned, in order
  writes,    \* history: the number of write calls that returned
  reads,     \* history: the number of read calls that returned
  out,       \* the buffer of the last read call that returned
  nread,     \* the nread of the last read call that returned
  res,       \* the last call: [op, err], err "ok" or the failure's name
  world,     \* WebAssembly class: its static state [memory, freeList, head]
  inst,      \* per instance: [made, pointer, finalized, bytes]
  wcfg,      \* history: the arguments each instance was constructed with
  calls,     \* history: per instance, the inputs of its update calls before digest
  ups,       \* history: per instance, the number of its update calls
  digests,   \* per instance, the digest its digest call returned
  late,      \* history: TRUE once update was called on a finalized instance
  wres       \* the last call: [op, id, err]

tsvars == <<self, alive, cfg, absorbed, writes, reads, out, nread, res>>
wvars == <<world, inst, wcfg, calls, ups, digests, late, wres>>
vars == <<tsvars, wvars>>

NoConfig == [digestLength |-> 0, key |-> None, salt |-> None, personal |-> None]

\* the static state of the WebAssembly class when the module is loaded
World0 ==
  [memory |-> Tab([a \in 0..(MemTop - 1) |-> 0]), freeList |-> <<>>,
   head |-> HeadStart]

NoInstance ==
  [digestLength |-> 0, v |-> Zeros32(32), m |-> Zeros32(32), b |-> Zeros8(128),
   h |-> Zeros32(16), t |-> 0, c |-> 0, log |-> <<>>, hi |-> -1]

Init ==
  /\ self = NoInstance
  /\ alive = FALSE
  /\ cfg = NoConfig
  /\ absorbed = <<>>
  /\ writes = 0
  /\ reads = 0
  /\ out = <<>>
  /\ nread = 0
  /\ res = [op |-> "none", err |-> "ok"]
  /\ world = World0
  /\ inst = [i \in Ids |-> [made |-> FALSE, pointer |-> 0, finalized |-> FALSE,
                             bytes |-> 0]]
  /\ wcfg = [i \in Ids |-> NoConfig]
  /\ calls = [i \in Ids |-> <<>>]
  /\ ups = [i \in Ids |-> 0]
  /\ digests = [i \in Ids |-> <<>>]
  /\ late = FALSE
  /\ wres = [op |-> "none", id |-> 0, err |-> "ok"]

\* new Blake2b(digestLength, key, salt, personal)
New(digestLength, key, salt, personal) ==
  /\ ~alive
  /\ LET e == CtorError(digestLength, key, salt, personal)
     IN  /\ res' = [op |-> "new", err |-> e]
         /\ IF e = "ok"
            THEN /\ self' = Blake2b(digestLength, key, salt, personal)
                 /\ alive' = TRUE
                 /\ cfg' = [digestLength |-> digestLength, key |-> key,
                            salt |-> salt, personal |-> personal]
            ELSE UNCHANGED <<self, alive, cfg>>
  /\ UNCHANGED <<absorbed, writes, reads, out, nread>>
  /\ UNCHANGED wvars

\* write(input); its three assertions hold of every byte sequence
Write(input) ==
  /\ alive
  /\ writes < MaxWrites
  /\ self' = blake2bUpdate(self, input)
  /\ absorbed' = absorbed \o input
  /\ writes' = writes + 1
  /\ res' = [op |-> "write", err |-> "ok"]
  /\ UNCHANGED <<alive, cfg, reads, out, nread>>
  /\ UNCHANGED wvars

\* read(out) that finalizes before it looks at the length of out
ReadDigestFirst(outLen) ==
  /\ alive
  /\ reads < MaxReads
  /\ outLen >= 0
  /\ LET d == blake2bDigest(self, [j \in 1..outLen |-> OutFill])
     IN  /\ self' = d.self
         /\ IF outLen >= self.digestLength
            THEN /\ out' = d.out
                 /\ nread' = outLen
                 /\ reads' = reads + 1
                 /\ res' = [op |-> "read", err |-> "ok"]
            ELSE /\ res' = [op |-> "read", err |-> "OutputBufferTooSmall"]
                 /\ UNCHANGED <<out, nread, reads>>
  /\ UNCHANGED <<alive, cfg, absorbed, writes>>
  /\ UNCHANGED wvars

\* read(out), out a buffer of outLen bytes
Read(outLen) ==
  /\ alive
  /\ reads < MaxReads
  /\ outLen >= 0
  /\ IF outLen >= self.digestLength
     THEN LET d == blake2bDigest(self, [j \in 1..outLen |-> OutFill])
          IN  /\ self' = d.self
              /\ out' = d.out
              /\ nread' = outLen
              /\ reads' = reads + 1
              /\ res' = [op |-> "read", err |-> "ok"]
     ELSE /\ res' = [op |-> "read", err |-> "OutputBufferTooSmall"]
          /\ UNCHANGED <<self, out, nread, reads>>
  /\ UNCHANGED <<alive, cfg, absorbed, writes>>
  /\ UNCHANGED wvars

Next ==
  \/ \E a \in Configs : New(a[1], a[2], a[3], a[4])
  \/ \E n \in ChunkLens : Write(Chunk(Len(absorbed), n))
  \/ \E d \in OutDeltas : Read(self.digestLength + d)

Spec == Init /\ [][Next]_vars

---------------------------------------------------------------------------
(* Instances of the WebAssembly-backed class and their caller              *)

\* the most update calls on one instance
MaxUpdates == 1

\* the constructor arguments tried: <<bytes, key, salt, personal>>
WConfigs ==
  { <<64, None, None, None>>,
    <<32, Some(Bytes(1, 7)), None, None>>,
    <<DIGESTBYTES_MIN - 1, None, None, None>>,
    <<64, Some(Bytes(KEYBYTES_MAX + 1, 0)), None, None>>,
    <<64, None, Some(Bytes(SALTBYTES + 1, 0)), None>>,
    <<64, None, None, Some(Bytes(PERSONALBYTES - 1, 0))>> }

RECURSIVE Flat(_)
\* the concatenation of a sequence of byte sequences
Flat(cs) == IF cs = <<>> THEN <<>> ELSE Head(cs) \o Flat(Tail(cs))

\* a constructor that takes its slot before it validates its arguments
ConstructAllocFirst(i, bytes, key, salt, personal) ==
  /\ ~inst[i].made
  /\ \A j \in Ids : j < i => inst[j].made
  /\ LET e == WCtorError(bytes, key, salt, personal)
     IN  /\ wres' = [op |-> "new", id |-> i, err |-> e]
         /\ IF e = "ok"
            THEN LET r == WBlake2b(world, bytes, key, salt, personal)
                 IN  /\ world' = r.w
                     /\ inst' = [inst EXCEPT ![i] =
                                   [made |-> TRUE, pointer |-> r.pointer,
                                    finalized |-> FALSE, bytes |-> bytes]]
                     /\ wcfg' = [wcfg EXCEPT ![i] =
                                   [digestLength |-> bytes, key |-> key,
                                    salt |-> salt, personal |-> personal]]
            ELSE /\ world' = Alloc(world).w
                 /\ UNCHANGED <<inst, wcfg>>
  /\ UNCHANGED <<calls, ups, digests, late>>
  /\ UNCHANGED tsvars

\* new Blake2b(bytes, key, salt, personal), the instance named i
Construct(i, bytes, key, salt, personal) ==
  /\ ~inst[i].made
  /\ \A j \in Ids : j < i => inst[j].made
  /\ LET e == WCtorError(bytes, key, salt, personal)
     IN  /\ wres' = [op |-> "new", id |-> i, err |-> e]
         /\ IF e = "ok"
            THEN LET r == WBlake2b(world, bytes, key, salt, personal)
                 IN  /\ world' = r.w
                     /\ inst' = [inst EXCEPT ![i] =
                                   [made |-> TRUE, pointer |-> r.pointer,
                                    finalized |-> FALSE, bytes |-> bytes]]
                     /\ wcfg' = [wcfg EXCEPT ![i] =
                                   [digestLength |-> bytes, key |-> key,
                                    salt |-> salt, personal |-> personal]]
            ELSE UNCHANGED <<world, inst, wcfg>>
  /\ UNCHANGED <<calls, ups, digests, late>>
  /\ UNCHANGED tsvars

\* update(input) on the instance i; the method has no assertion
Update(i, input) ==
  /\ ups[i] < MaxUpdates
  /\ ups' = [ups EXCEPT ![i] = @ + 1]
  /\ inst[i].made
  /\ world' = update(world, inst[i].pointer, input)
  /\ calls' = IF inst[i].finalized THEN calls
              ELSE [calls EXCEPT ![i] = Append(@, input)]
  /\ late' = (late \/ inst[i].finalized)
  /\ wres' = [op |-> "update", id |-> i, err |-> "ok"]
  /\ UNCHANGED <<inst, wcfg, digests>>
  /\ UNCHANGED tsvars

\* digest() on the instance i
Digest(i) ==
  /\ inst[i].made
  /\ IF inst[i].finalized
     THEN /\ wres' = [op |-> "digest", id |-> i, err |-> "AlreadyFinalized"]
          /\ UNCHANGED <<world, inst, digests>>
     ELSE LET r == digest(world, inst[i].pointer, inst[i].bytes)
          IN  /\ world' = r.w
              /\ inst' = [inst EXCEPT ![i].finalized = TRUE]
              /\ digests' = [digests EXCEPT ![i] = r.out]
              /\ wres' = [op |-> "digest", id |-> i, err |-> "ok"]
  /\ UNCHANGED <<wcfg, calls, ups, late>>
  /\ UNCHANGED tsvars

NextWasm ==
  \/ \E i \in Ids, a \in WConfigs : Construct(i, a[1], a[2], a[3], a[4])
  \/ \E i \in Ids, n \in WChunkLens : Update(i, Chunk(Len(Flat(calls[i])), n))
  \/ \E i \in Ids : Digest(i)

SpecWasm == Init /\ [][NextWasm]_vars


---------------------------------------------------------------------------
(* Properties of the TypeScript class                                      *)

\* the state right after the first read call that returned
FirstRead == alive /\ reads = 1 /\ res = [op |-> "read", err |-> "ok"]

\* the digest of one write call with all of msg followed by one read call, on
\* a fresh instance constructed with the arguments a
OneShot(a, msg) ==
  blake2bDigest(
    blake2bUpdate(Blake2b(a.digestLength, a.key, a.salt, a.personal), msg),
    [j \in 1..a.digestLength |-> OutFill]).out

\* the bytes the instance has absorbed, the block of the key counting as 128
KeyBlockBytes == IF cfg.key.has THEN BLOCKBYTES ELSE 0
Absorbed == KeyBlockBytes + Len(absorbed)

\* the indices of the compressions that carried the last-block flag
LastFlagged == {i \in 1..Len(self.log) : self.log[i].last}

\* the digest the last read call that returned wrote: the first digestLength
\* bytes of its buffer
DigestOut == SubSeq(out, 1, self.digestLength)

\* C1: whatever the constructor arguments and however the message was cut
\* into write calls (empty chunks and chunks ending on a block boundary
\* included), the first read yields the digest that one write call with the
\* whole message followed by read yields.
C1_ChunkingInvariance == FirstRead => DigestOut = OneShot(cfg, absorbed)

C1_Witness ==
  /\ FirstRead
  /\ writes = 2
  /\ Len(absorbed) = BLOCKBYTES
  /\ cfg.key.has
  /\ DigestOut = OneShot(cfg, absorbed)

\* C2: read succeeds at most once per instance: once a read call has
\* returned a digest, no further read call returns one.
C2_FinalizeAtMostOnce == reads <= 1

\* C3: a write call on an instance whose read has returned fails with
\* AlreadyFinalized and absorbs nothing.
C3_NoUpdateAfterFinalize ==
  [][(reads >= 1 /\ res'.op = "write")
       => (res'.err = "AlreadyFinalized" /\ self' = self /\ absorbed' = absorbed)]_vars

\* C4: an instance constructed with a key of length 0 yields, for the same
\* message, digest length, salt and personal, the digest of the instance
\* constructed with no key.
C4_EmptyKeyIsUnkeyed ==
  (FirstRead /\ cfg.key.has /\ Len(cfg.key.val) = 0)
    => DigestOut = OneShot([cfg EXCEPT !.key = None], absorbed)

\* C5: once read has returned, exactly one compression of the instance
\* carried the last-block flag, it is the last compression performed, and
\* the number of compressions is ceil(L/128) for the absorbed length L > 0
\* (the key block counting 128) and 1 for L = 0.
C5_OneLastCompression ==
  (alive /\ reads >= 1)
    => /\ Cardinality(LastFlagged) = 1
       /\ self.log[Len(self.log)].last
       /\ Len(self.log) = IF Absorbed = 0 THEN 1
                          ELSE (Absorbed + BLOCKBYTES - 1) \div BLOCKBYTES

\* the block the constructor leaves in the buffer: the key, then zeros
KeyBlock == [i \in 0..127 |-> IF i < Len(cfg.key.val) THEN cfg.key.val[i + 1] ELSE 0]

\* C6: with a key of 1..64 bytes the constructor leaves the key followed by
\* zeros in the buffer, c = 128 and t = 0; that block is the first block
\* compressed, with counter 128: as a non-final block when the message is not
\* empty, as the final block when it is empty.
C6_KeyBlockFirst ==
  (alive /\ cfg.key.has /\ Len(cfg.key.val) >= 1)
    => /\ Len(self.log) = 0
            => (self.b = KeyBlock /\ self.c = BLOCKBYTES /\ self.t = 0)
       /\ Len(self.log) >= 1
            => (self.log[1].blk = KeyBlock /\ self.log[1].t = BLOCKBYTES)
       /\ (Len(self.log) >= 1 /\ (reads = 0 \/ FirstRead))
            => (self.log[1].last <=> absorbed = <<>>)

C6_Witness ==
  /\ FirstRead
  /\ Len(cfg.key.val) = KEYBYTES_MAX
  /\ absorbed # <<>>
  /\ self.log[1] = [blk |-> KeyBlock, t |-> BLOCKBYTES, last |-> FALSE]

\* C9: before read, t is a multiple of 128 and t + c is the number of bytes
\* absorbed (the key block counting 128); the j-th compression, as long as
\* none was final, saw the counter 128 * j, and the final compression of the
\* first read saw the number of bytes absorbed.
C9_CounterAccounts ==
  /\ (alive /\ reads = 0)
       => (self.t % BLOCKBYTES = 0 /\ self.t + self.c = Absorbed)
  /\ alive
       => \A j \in 1..Len(self.log) :
            (\A i \in 1..j : ~self.log[i].last) => self.log[j].t = BLOCKBYTES * j
  /\ FirstRead => self.log[Len(self.log)].t = Absorbed

C9_Witness ==
  /\ FirstRead
  /\ cfg.key.has
  /\ Len(absorbed) = 2 * BLOCKBYTES
  /\ Len(self.log) = 3
  /\ self.log[2].t = 2 * BLOCKBYTES
  /\ self.log[3].t = Absorbed

\* C10: in every state 0 <= c <= 128 and no byte store has used an index of
\* 128 or more; and a write call that brings a byte while c = 128 first
\* compresses the full buffer as a non-final block, resets c, and stores the
\* byte at index 0.
C10_FillPointer ==
  /\ [](alive => (self.c >= 0 /\ self.c <= BLOCKBYTES /\ self.hi < BLOCKBYTES))
  /\ [][(alive /\ self.c = BLOCKBYTES /\ Len(absorbed') > Len(absorbed))
          => /\ Len(self'.log) > Len(self.log)
             /\ self'.log[Len(self.log) + 1] =
                  [blk |-> self.b, t |-> self.t + BLOCKBYTES, last |-> FALSE]
             /\ Len(absorbed') - Len(absorbed) <= BLOCKBYTES
                  => self'.b[0] = absorbed'[Len(absorbed) + 1]]_vars

C10_Witness ==
  /\ alive
  /\ reads = 0
  /\ self.c = 3
  /\ self.hi = BLOCKBYTES - 1
  /\ Len(self.log) = 2
  /\ ~self.log[2].last

---------------------------------------------------------------------------
(* Properties of the WebAssembly-backed class                              *)

\* the state right after a digest call that returned
LastDigest == wres.op = "digest" /\ wres.err = "ok"

RECURSIVE UpdateAll(_, _, _)
\* the update calls with the inputs cs, in order, on the instance at pointer
UpdateAll(w, pointer, cs) ==
  IF cs = <<>> THEN w
  ELSE Let(update(w, pointer, Head(cs)),
           LAMBDA w2 : UpdateAll(w2, pointer, Tail(cs)))

\* the digest of an instance constructed with the arguments a in the freshly
\* loaded class, given the update calls cs and then digest, nothing else
\* being called
Alone(a, cs) ==
  Let(WBlake2b(World0, a.digestLength, a.key, a.salt, a.personal), LAMBDA r :
  Let(UpdateAll(r.w, r.pointer, cs), LAMBDA w :
  digest(w, r.pointer, a.digestLength).out))

\* C7: two finalized instances constructed with the same digest length, key,
\* salt and personal and fed the same message bytes before their digest call
\* have the same digest, whatever was called on other instances and whichever
\* instance held the state slot before.
C7_Determinism ==
  \A i, j \in Ids :
    (/\ inst[i].finalized
     /\ inst[j].finalized
     /\ wcfg[i] = wcfg[j]
     /\ Flat(calls[i]) = Flat(calls[j]))
      => digests[i] = digests[j]

\* C8: as long as update and digest are called on instances that are not yet
\* finalized, however the calls on the instances interleave, the digest an
\* instance returns is the digest its own calls yield when run alone.
C8_NoInterference ==
  (LastDigest /\ ~late)
    => digests[wres.id] = Alone(wcfg[wres.id], calls[wres.id])

C8_Witness ==
  /\ LastDigest
  /\ ~late
  /\ wres.id = 1
  /\ wcfg[1].key.has
  /\ calls[1] # <<>>
  /\ inst[2].made
  /\ ~inst[2].finalized
  /\ calls[2] # <<>>
  /\ digests[1] = Alone(wcfg[1], calls[1])

---------------------------------------------------------------------------
(* Further properties of the TypeScript class                              *)

\* the state right after a read call that returned
ReadReturned == alive /\ res = [op |-> "read", err |-> "ok"]

\* byte j (from 1) of the digest the hash state h holds
DigestByte(h, j) == ByteOf(h[(j - 1) \div 4], (j - 1) % 4)

\* C11: a read call that returns has written the digestLength digest bytes to
\* out[0..digestLength-1] and has left every further byte of out as it was.
C11_DigestLength ==
  ReadReturned
    => \A j \in 1..Len(out) :
         out[j] = IF j <= self.digestLength THEN DigestByte(self.h, j)
                  ELSE OutFill

C11_Witness ==
  /\ ReadReturned
  /\ self.digestLength = 32
  /\ Len(out) = 34
  /\ out[32] = DigestByte(self.h, 32)
  /\ out[32] # OutFill
  /\ out[33] = OutFill
  /\ out[34] = OutFill


\* the state right after a read call that failed on a short buffer
ReadFailed == alive /\ res = [op |-> "read", err |-> "OutputBufferTooSmall"]

\* C16: a read call whose buffer is shorter than the digest length fails and
\* changes nothing: the fields of the instance (h, b, t, c among them), the
\* count of reads that returned and the last digest written are as before, so
\* every later call starts from the state it would have started from without
\* the failed call.
C16_ShortReadChangesNothing ==
  [][ReadFailed' =>
       /\ self' = self
       /\ reads' = reads
       /\ out' = out
       /\ nread' = nread
       /\ absorbed' = absorbed]_vars

C16_Witness ==
  /\ ReadFailed
  /\ reads = 0
  /\ writes = 1
  /\ self.c = 3
  /\ self.digestLength = 32
  /\ Len(self.log) = 1

\* C17: read accepts only a buffer whose length equals the digest length, so a
\* read call that returned was handed a buffer of exactly digestLength bytes.
C17_ExactLength == ReadReturned => Len(out) = self.digestLength

\* C30: a read call that returned reports as nread the number of digest bytes
\* it wrote, the digest length, whatever the length of the buffer.
C30_NreadIsDigestLength == ReadReturned => nread = self.digestLength

\* the message "abc" and the digests the tests expect of "abc" and of the empty
\* message, digest length 64, no key, salt or personalisation
AbcMessage == <<97, 98, 99>>
AbcDigest ==
  <<186, 128, 165, 63, 152, 28, 77, 13, 106, 39, 151, 182, 159, 18, 246, 233,
     76, 33, 47, 20, 104, 90, 196, 183, 75, 18, 187, 111, 219, 255, 162, 209,
     125, 135, 197, 57, 42, 171, 121, 45, 194, 82, 213, 222, 69, 51, 204, 149,
     24, 211, 138, 168, 219, 241, 146, 90, 185, 35, 134, 237, 212, 0, 153, 35>>
EmptyDigest ==
  <<120, 106, 2, 247, 66, 1, 89, 3, 198, 198, 253, 133, 37, 82, 210, 114,
     145, 47, 71, 64, 225, 88, 71, 97, 138, 134, 226, 23, 247, 31, 84, 25,
     210, 94, 16, 49, 175, 238, 88, 83, 19, 137, 100, 68, 147, 78, 176, 75,
     144, 58, 104, 91, 20, 72, 183, 85, 213, 111, 112, 26, 254, 155, 226, 206>>

\* the instance was constructed as new Blake2b(64)
Plain64 ==
  cfg = [digestLength |-> DIGESTBYTES_MAX, key |-> None, salt |-> None,
         personal |-> None]

\* C19: on an instance of digest length 64 without key, salt or personal, the
\* first read after writing "abc" yields ba80a53f...d4009923 and the first read
\* after writing nothing yields 786a02f7...fe9be2ce, the RFC 7693 values.
C19_KnownAnswers ==
  (FirstRead /\ Plain64) =>
    /\ absorbed = AbcMessage => DigestOut = AbcDigest
    /\ absorbed = <<>> => DigestOut = EmptyDigest

C19_Witness ==
  /\ FirstRead
  /\ Plain64
  /\ absorbed = AbcMessage
  /\ writes = 1
  /\ Len(out) = DIGESTBYTES_MAX
  /\ out = AbcDigest

\* a step that is a write call, and the number of bytes the call was handed
WriteStep == writes' = writes + 1
Written == Len(absorbed') - Len(absorbed)

\* C20: a write call changes h and t only by compressing, which it does only
\* when a byte arrives while c = 128: a call with no bytes changes no field,
\* also when c = 128, and a call whose bytes fit into the current block changes
\* b at the positions c..c+n-1 and c, and nothing else.
C20_OnlyCompressionChangesH ==
  [][WriteStep =>
       /\ Written = 0 => self' = self
       /\ (Written > 0 /\ self.c + Written <= BLOCKBYTES) =>
            /\ self'.h = self.h
            /\ self'.t = self.t
            /\ self'.v = self.v
            /\ self'.m = self.m
            /\ self'.log = self.log
            /\ self'.c = self.c + Written
            /\ \A i \in 0..(BLOCKBYTES - 1) :
                 (i < self.c \/ i >= self'.c) => self'.b[i] = self.b[i]
       /\ (self'.h # self.h \/ self'.t # self.t) =>
            /\ self.c + Written > BLOCKBYTES
            /\ Len(self'.log) > Len(self.log)]_vars

C20_Witness ==
  /\ alive
  /\ res = [op |-> "write", err |-> "ok"]
  /\ writes = 1
  /\ absorbed = <<>>
  /\ cfg.key.has
  /\ self.c = BLOCKBYTES
  /\ self.t = 0
  /\ Len(self.log) = 0

\* byte i (from 0) of all the instance absorbed: the key block, if there is
\* one, then the bytes of the write calls
Stream(i) ==
  IF i < KeyBlockBytes THEN KeyBlock[i] ELSE absorbed[i - KeyBlockBytes + 1]

\* the number of absorbed bytes that belong to the final block, and the final
\* block: these bytes, then zeros
FinalFill ==
  IF Absorbed = 0 THEN 0 ELSE Absorbed - BLOCKBYTES * ((Absorbed - 1) \div BLOCKBYTES)
FinalBlock ==
  [i \in 0..127 |-> IF i < FinalFill THEN Stream(Absorbed - FinalFill + i) ELSE 0]

\* C21: the compression of the first read saw the counter t + c and the block
\* made of the last c absorbed bytes followed by 128 - c zeros; bytes of an
\* earlier block that were still in the buffer behind position c are not in it.
C21_FinalBlockZeroPadded ==
  FirstRead =>
    /\ self.log[Len(self.log)].last
    /\ self.log[Len(self.log)].t = Absorbed
    /\ self.log[Len(self.log)].blk = FinalBlock

C21_Witness ==
  /\ FirstRead
  /\ ~cfg.key.has
  /\ Len(absorbed) = BLOCKBYTES + 3
  /\ Len(self.log) = 2
  /\ self.log[1].blk[3] # 0
  /\ self.log[2].blk[2] = absorbed[BLOCKBYTES + 3]
  /\ self.log[2].blk[3] = 0
  /\ self.log[2].blk = FinalBlock

---------------------------------------------------------------------------
(* The two constructors as functions of their arguments                    *)

\* digest lengths, key lengths, salts and personalisations handed to the
\* constructors
CtorDigestLengths == (DIGESTBYTES_MIN - 1)..(DIGESTBYTES_MAX + 1)
CtorKeyLengths == KEYBYTES_MIN..(KEYBYTES_MAX + 1)
CtorSalts ==
  {None} \cup {Some(Bytes(n, 16)) : n \in (SALTBYTES - 1)..(SALTBYTES + 1)}
CtorPersonals ==
  {None}
    \cup {Some(Bytes(n, 32)) : n \in (PERSONALBYTES - 1)..(PERSONALBYTES + 1)}

\* the argument lists tried: every digest length without further arguments,
\* every key length with the smallest, largest and two invalid digest lengths,
\* every salt and personalisation with a valid and an invalid digest length and
\* with no key, a valid key and a key that is too long
CtorArgs ==
  {[digestLength |-> n, key |-> None, salt |-> None, personal |-> None] :
     n \in CtorDigestLengths}
  \cup
  {[digestLength |-> n, key |-> Some(Bytes(k, 0)), salt |-> None,
    personal |-> None] :
     n \in {DIGESTBYTES_MIN - 1, DIGESTBYTES_MIN, DIGESTBYTES_MAX,
            DIGESTBYTES_MAX + 1},
     k \in CtorKeyLengths}
  \cup
  {[digestLength |-> n, key |-> k, salt |-> s, personal |-> p] :
     n \in {DIGESTBYTES_MAX, DIGESTBYTES_MAX + 1},
     k \in {None, Some(Bytes(KEYBYTES_MAX, 0)), Some(Bytes(KEYBYTES_MAX + 1, 0))},
     s \in CtorSalts,
     p \in CtorPersonals}

\* before the call: the arguments are chosen, nothing is constructed
InitCtor ==
  /\ self = NoInstance
  /\ alive = FALSE
  /\ cfg \in CtorArgs
  /\ absorbed = <<>>
  /\ writes = 0
  /\ reads = 0
  /\ out = <<>>
  /\ nread = 0
  /\ res = [op |-> "none", err |-> "ok"]
  /\ world = World0
  /\ inst = [i \in Ids |-> [made |-> FALSE, pointer |-> 0, finalized |-> FALSE,
                             bytes |-> 0]]
  /\ wcfg = [i \in Ids |-> NoConfig]
  /\ calls = [i \in Ids |-> <<>>]
  /\ ups = [i \in Ids |-> 0]
  /\ digests = [i \in Ids |-> <<>>]
  /\ late = FALSE
  /\ wres = [op |-> "none", id |-> 0, err |-> "ok"]

\* the TypeScript constructor called with the chosen arguments
NewChosen ==
  /\ res.op = "none"
  /\ New(cfg.digestLength, cfg.key, cfg.salt, cfg.personal)

\* the WebAssembly-backed constructor called with the chosen arguments
ConstructChosen ==
  /\ wres.op = "none"
  /\ Construct(1, cfg.digestLength, cfg.key, cfg.salt, cfg.personal)

\* after it, the WebAssembly-backed constructor called without key, salt and
\* personalisation
ConstructPlain ==
  /\ inst[1].made
  /\ Construct(2, DIGESTBYTES_MAX, None, None, None)

NextCtor ==
  \/ NewChosen
  \/ ConstructChosen
  \/ ConstructPlain

SpecCtor == InitCtor /\ [][NextCtor]_vars

\* the constructor calls that have returned or thrown
NewCalled == res.op = "new"
ConstructCalled == wres.op = "new"

\* what the assertions require of each argument
DigestLengthValid(a) ==
  a.digestLength >= DIGESTBYTES_MIN /\ a.digestLength <= DIGESTBYTES_MAX
KeyValid(a) == a.key.has => Len(a.key.val) <= KEYBYTES_MAX
SaltValid(a) == a.salt.has => Len(a.salt.val) = SALTBYTES
PersonalValid(a) == a.personal.has => Len(a.personal.val) = PERSONALBYTES

\* the instances the two constructors made, if they made one
NewMade == alive /\ self.digestLength = cfg.digestLength
ConstructMade == inst[1].made /\ inst[1].bytes = cfg.digestLength


\* C12: a constructor call with a digest length outside 1..64 fails with
\* InvalidDigestLength, whatever the other arguments are, and makes no
\* instance; with a digest length in 1..64 it never fails with that error,
\* and with the other arguments valid too it makes an instance of that digest
\* length. This holds of both classes.
C12_InvalidDigestLength ==
  /\ NewCalled =>
       /\ (res.err = "InvalidDigestLength") <=> ~DigestLengthValid(cfg)
       /\ ~DigestLengthValid(cfg) => (~alive /\ self = NoInstance)
       /\ (DigestLengthValid(cfg) /\ KeyValid(cfg) /\ SaltValid(cfg)
             /\ PersonalValid(cfg)) => (res.err = "ok" /\ NewMade)
  /\ ConstructCalled =>
       /\ (wres.err = "InvalidDigestLength") <=> ~DigestLengthValid(cfg)
       /\ ~DigestLengthValid(cfg) => (~inst[1].made /\ world = World0)
       /\ (DigestLengthValid(cfg) /\ KeyValid(cfg) /\ SaltValid(cfg)
             /\ PersonalValid(cfg)) => (wres.err = "ok" /\ ConstructMade)

C12_Witness ==
  /\ NewCalled
  /\ ConstructCalled
  /\ cfg.digestLength = DIGESTBYTES_MAX + 1
  /\ cfg.key.has
  /\ res.err = "InvalidDigestLength"
  /\ wres.err = "InvalidDigestLength"
  /\ ~alive
  /\ ~inst[1].made

\* C13: with a valid digest length, a constructor call fails with
\* InvalidKeyLength exactly when its key is longer than 64 bytes, and then makes
\* no instance; a key of 0..64 bytes with the other arguments valid is accepted.
\* This holds of both classes.
C13_InvalidKeyLength ==
  /\ (NewCalled /\ DigestLengthValid(cfg)) =>
       /\ (res.err = "InvalidKeyLength") <=> ~KeyValid(cfg)
       /\ ~KeyValid(cfg) => (~alive /\ self = NoInstance)
       /\ (KeyValid(cfg) /\ SaltValid(cfg) /\ PersonalValid(cfg))
            => (res.err = "ok" /\ NewMade)
  /\ (ConstructCalled /\ DigestLengthValid(cfg)) =>
       /\ (wres.err = "InvalidKeyLength") <=> ~KeyValid(cfg)
       /\ ~KeyValid(cfg) => (~inst[1].made /\ world = World0)
       /\ (KeyValid(cfg) /\ SaltValid(cfg) /\ PersonalValid(cfg))
            => (wres.err = "ok" /\ ConstructMade)

C13_Witness ==
  /\ NewCalled
  /\ ConstructCalled
  /\ DigestLengthValid(cfg)
  /\ cfg.key.has
  /\ Len(cfg.key.val) = KEYBYTES_MAX + 1
  /\ ~SaltValid(cfg)
  /\ res.err = "InvalidKeyLength"
  /\ wres.err = "InvalidKeyLength"
  /\ ~alive
  /\ ~inst[1].made

\* C14: with a valid digest length and key, a constructor call fails with
\* InvalidSaltLength exactly when a salt is given whose length is not 16, and
\* then makes no instance; no salt or a 16-byte salt with the other arguments
\* valid is accepted. This holds of both classes.
C14_InvalidSaltLength ==
  /\ (NewCalled /\ DigestLengthValid(cfg) /\ KeyValid(cfg)) =>
       /\ (res.err = "InvalidSaltLength") <=> ~SaltValid(cfg)
       /\ ~SaltValid(cfg) => (~alive /\ self = NoInstance)
       /\ (KeyValid(cfg) /\ SaltValid(cfg) /\ PersonalValid(cfg))
            => (res.err = "ok" /\ NewMade)
  /\ (ConstructCalled /\ DigestLengthValid(cfg) /\ KeyValid(cfg)) =>
       /\ (wres.err = "InvalidSaltLength") <=> ~SaltValid(cfg)
       /\ ~SaltValid(cfg) => (~inst[1].made /\ world = World0)
       /\ (KeyValid(cfg) /\ SaltValid(cfg) /\ PersonalValid(cfg))
            => (wres.err = "ok" /\ ConstructMade)

C14_Witness ==
  /\ NewCalled
  /\ ConstructCalled
  /\ DigestLengthValid(cfg)
  /\ cfg.key.has
  /\ KeyValid(cfg)
  /\ cfg.salt.has
  /\ Len(cfg.salt.val) = SALTBYTES - 1
  /\ ~PersonalValid(cfg)
  /\ res.err = "InvalidSaltLength"
  /\ wres.err = "InvalidSaltLength"
  /\ ~alive
  /\ ~inst[1].made

\* C15: with a valid digest length, key and salt, a constructor call fails with
\* InvalidPersonalLength exactly when a personalisation is given whose length
\* is not 16, and then makes no instance; no personalisation or one of 16 bytes
\* is accepted. This holds of both classes.
C15_InvalidPersonalLength ==
  /\ (NewCalled /\ DigestLengthValid(cfg) /\ KeyValid(cfg) /\ SaltValid(cfg)) =>
       /\ (res.err = "InvalidPersonalLength") <=> ~PersonalValid(cfg)
       /\ ~PersonalValid(cfg) => (~alive /\ self = NoInstance)
       /\ (KeyValid(cfg) /\ SaltValid(cfg) /\ PersonalValid(cfg))
            => (res.err = "ok" /\ NewMade)
  /\ (ConstructCalled /\ DigestLengthValid(cfg) /\ KeyValid(cfg) /\ SaltValid(cfg)) =>
       /\ (wres.err = "InvalidPersonalLength") <=> ~PersonalValid(cfg)
       /\ ~PersonalValid(cfg) => (~inst[1].made /\ world = World0)
       /\ (KeyValid(cfg) /\ SaltValid(cfg) /\ PersonalValid(cfg))
            => (wres.err = "ok" /\ ConstructMade)

C15_Witness ==
  /\ NewCalled
  /\ ConstructCalled
  /\ DigestLengthValid(cfg)
  /\ cfg.key.has
  /\ KeyValid(cfg)
  /\ cfg.salt.has
  /\ SaltValid(cfg)
  /\ cfg.personal.has
  /\ Len(cfg.personal.val) = PERSONALBYTES - 1
  /\ res.err = "InvalidPersonalLength"
  /\ wres.err = "InvalidPersonalLength"
  /\ ~alive
  /\ ~inst[1].made

\* the parameter block for the arguments a, byte by byte
BlockOf(a) ==
  [i \in 0..63 |->
     IF i = 0 THEN a.digestLength
     ELSE IF i = 1 THEN (IF a.key.has THEN Len(a.key.val) ELSE 0)
     ELSE IF i = 2 \/ i = 3 THEN 1
     ELSE IF i < 32 THEN 0
     ELSE IF i < 48 THEN (IF a.salt.has THEN a.salt.val[i - 31] ELSE 0)
     ELSE (IF a.personal.has THEN a.personal.val[i - 47] ELSE 0)]

\* the last constructor call of the WebAssembly-backed class returned
Constructed == wres.op = "new" /\ wres.err = "ok"

\* C25: the parameter block a constructor builds holds the digest length, the
\* key length or 0, 1, 1, zeros up to byte 31, the salt or zeros in bytes 32..47
\* and the personalisation or zeros in bytes 48..63: it is the block the hash
\* state of the TypeScript class is made from, and it is what the
\* WebAssembly-backed constructor leaves in memory[0..63], also for an instance
\* constructed after one with other arguments.
C25_ParameterBlock ==
  /\ (NewCalled /\ res.err = "ok") =>
       /\ \A i \in 0..63 :
            ParameterBlock(cfg.digestLength, cfg.key, cfg.salt, cfg.personal)[i]
              = BlockOf(cfg)[i]
       /\ self.h = InitH(BlockOf(cfg))
  /\ Constructed =>
       \A i \in 0..63 : world.memory[i] = BlockOf(wcfg[wres.id])[i]

C25_Witness ==
  /\ Constructed
  /\ wres.id = 2
  /\ wcfg[1].key.has
  /\ wcfg[1].salt.has
  /\ wcfg[1].personal.has
  /\ ~wcfg[2].salt.has
  /\ world.memory[0] = DIGESTBYTES_MAX
  /\ world.memory[1] = 0
  /\ world.memory[32] = 0
  /\ world.memory[63] = 0
  /\ res = [op |-> "new", err |-> "ok"]
  /\ self.h = InitH(BlockOf(cfg))

---------------------------------------------------------------------------
(* Further properties of the WebAssembly-backed class                      *)

\* the instances that hold a state slot: constructed and not yet finalized
Live == {i \in Ids : inst[i].made /\ ~inst[i].finalized}

\* the pointers on the free list
FreePointers == {world.freeList[k] : k \in 1..Len(world.freeList)}

\* C27: the slots of the live instances are pairwise distinct and not on the
\* free list, the free list holds no pointer twice, and every slot handed out
\* or free lies in [64, head), below the area where update stages its input.
C27_AllocatorInvariant ==
  /\ \A i, j \in Live : i # j => inst[i].pointer # inst[j].pointer
  /\ \A i \in Live : inst[i].pointer \notin FreePointers
  /\ Cardinality(FreePointers) = Len(world.freeList)
  /\ \A i \in Ids :
       inst[i].made =>
         (inst[i].pointer >= HeadStart /\ inst[i].pointer + SlotBytes <= world.head)
  /\ \A p \in FreePointers : p >= HeadStart /\ p + SlotBytes <= world.head

C27_Witness ==
  /\ inst[1].finalized
  /\ inst[2].made
  /\ ~inst[2].finalized
  /\ inst[2].pointer = inst[1].pointer
  /\ ups[2] = 1
  /\ world.freeList = <<>>
  /\ world.head = HeadStart + SlotBytes

\* the instance i is finalized and its former slot now belongs to the live
\* instance j
Reassigned(i, j) ==
  /\ i # j
  /\ inst[i].made
  /\ inst[i].finalized
  /\ j \in Live
  /\ inst[j].pointer = inst[i].pointer

\* the 216 bytes of the state slot at p
Slot(mem, p) == [k \in 0..(SlotBytes - 1) |-> mem[p + k]]

\* C28: a call on a finalized instance whose former slot was handed to a live
\* instance leaves that instance's slot, its hash state, as it is.
C28_StaleHandleHarmless ==
  [][\A i, j \in Ids :
       (Reassigned(i, j) /\ wres'.id = i /\ wres'.op \in {"update", "digest"}
          /\ inst'[j] = inst[j])
         => Slot(world'.memory, inst[j].pointer) = Slot(world.memory, inst[j].pointer)
    ]_vars

\* the last constructor call of the WebAssembly-backed class threw
ConstructFailed == wres.op = "new" /\ wres.err # "ok"

\* C29: a constructor call that fails on one of its assertions leaves the free
\* list, head and the memory as they were and makes no instance.
C29_FailedConstructorKeepsAllocator ==
  [][ConstructFailed' =>
       /\ world'.freeList = world.freeList
       /\ world'.head = world.head
       /\ world' = world
       /\ inst' = inst]_vars

C29_Witness ==
  /\ ConstructFailed
  /\ wres.id = 2
  /\ wres.err = "InvalidSaltLength"
  /\ inst[1].finalized
  /\ ~inst[2].made
  /\ world.freeList = <<HeadStart>>
  /\ world.head = HeadStart + SlotBytes

---------------------------------------------------------------------------
(* The G mixing function on its own                                        *)

\* the most B2B_G calls in a row
MaxG == 2

\* uint32 values the vectors are filled with: 0, 0xffffffff, 0x80000000, 1
Word0 == <<0, 0>>
WordF == <<65535, 65535>>
WordH == <<0, 32768>>
Word1 == <<1, 0>>

\* the working vectors B2B_G starts from: all zero, all ones, low words all
\* ones under zero high words, top bits only, and the vector a first compression
\* of an unkeyed instance starts from
GVectors ==
  { Zeros32(32),
    Tab([i \in 0..31 |-> WordF]),
    Tab([i \in 0..31 |-> IF i % 2 = 0 THEN WordF ELSE Word0]),
    Tab([i \in 0..31 |-> IF i % 2 = 0 THEN Word1 ELSE WordH]),
    InitV(InitH(ParameterBlock(DIGESTBYTES_MAX, None, None, None)), 3, TRUE) }

\* the message vectors: all zero, all ones, and the words of the block 97, 98, ...
GMessages ==
  { Zeros32(32),
    Tab([i \in 0..31 |-> WordF]),
    LoadM(Tab([i \in 0..127 |-> MsgByte(i)])) }

\* the rounds whose message indices the calls take
GRounds == {0, 5}

InitG ==
  /\ self \in {[NoInstance EXCEPT !.v = v0, !.m = m0] :
                 v0 \in GVectors, m0 \in GMessages}
  /\ alive = FALSE
  /\ cfg = NoConfig
  /\ absorbed = <<>>
  /\ writes = 0
  /\ reads = 0
  /\ out = <<>>
  /\ nread = 0
  /\ res = [op |-> "none", err |-> "ok"]
  /\ world = World0
  /\ inst = [i \in Ids |-> [made |-> FALSE, pointer |-> 0, finalized |-> FALSE,
                             bytes |-> 0]]
  /\ wcfg = [i \in Ids |-> NoConfig]
  /\ calls = [i \in Ids |-> <<>>]
  /\ ups = [i \in Ids |-> 0]
  /\ digests = [i \in Ids |-> <<>>]
  /\ late = FALSE
  /\ wres = [op |-> "none", id |-> 0, err |-> "ok"]

\* this.B2B_G(a, b, c, d, ix, iy); the history field log keeps the vector the
\* call started from and its arguments
CallG(a, b, c, d, ix, iy) ==
  /\ Len(self.log) < MaxG
  /\ self' = [self EXCEPT
                !.v = B2B_G(self.v, self.m, a, b, c, d, ix, iy),
                !.log = Append(@, [v |-> self.v, a |-> a, b |-> b, c |-> c,
                                   d |-> d, ix |-> ix, iy |-> iy])]
  /\ res' = [op |-> "B2B_G", err |-> "ok"]
  /\ UNCHANGED <<alive, cfg, absorbed, writes, reads, out, nread>>
  /\ UNCHANGED wvars

\* the "twelve rounds of mixing" of blake2bCompress on the vectors as they are;
\* log keeps the vector the rounds started from
RunRounds ==
  /\ Len(self.log) < MaxG
  /\ self' = [self EXCEPT !.v = Rounds(self.v, self.m, 0),
                          !.log = Append(@, [v |-> self.v])]
  /\ res' = [op |-> "rounds", err |-> "ok"]
  /\ UNCHANGED <<alive, cfg, absorbed, writes, reads, out, nread>>
  /\ UNCHANGED wvars

NextG ==
  \/ \E j \in 0..7, i \in GRounds :
       CallG(GCALLS[j + 1][1], GCALLS[j + 1][2], GCALLS[j + 1][3],
             GCALLS[j + 1][4], SIGMA82[i * 16 + 2 * j],
             SIGMA82[i * 16 + 2 * j + 1])
  \/ RunRounds

SpecG == InitG /\ [][NextG]_vars

\* a 64-bit word as its 64 bits, least significant first: of the two uint32 at
\* w[k] (low) and w[k + 1] (high)
Bits64(w, k) ==
  Tab([n \in 0..63 |->
     (<<w[k][1], w[k][2], w[k + 1][1], w[k + 1][2]>>[(n \div 16) + 1]
        \div Pow2(n % 16)) % 2])

RECURSIVE Limb(_, _, _)
\* the number the bits 16 * j + k, ..., 16 * j + 15 of x spell
Limb(x, j, k) ==
  IF k = 16 THEN 0 ELSE x[16 * j + k] + 2 * Limb(x, j, k + 1)

\* x + y modulo 2^64, by sixteen bits at a time with the carry passed upwards;
\* then the exclusive or, and the rotation to the right by n bits
Add64(x, y) ==
  Let(Limb(x, 0, 0) + Limb(y, 0, 0), LAMBDA s0 :
  Let(Limb(x, 1, 0) + Limb(y, 1, 0) + (s0 \div W16), LAMBDA s1 :
  Let(Limb(x, 2, 0) + Limb(y, 2, 0) + (s1 \div W16), LAMBDA s2 :
  Let(Limb(x, 3, 0) + Limb(y, 3, 0) + (s2 \div W16), LAMBDA s3 :
  Tab([n \in 0..63 |->
     (<<s0, s1, s2, s3>>[(n \div 16) + 1] \div Pow2(n % 16)) % 2])))))
Xor64(x, y) == Tab([n \in 0..63 |-> (x[n] + y[n]) % 2])
Rotr64(x, n) == Tab([k \in 0..63 |-> x[(k + n) % 64]])

\* G on 64-bit words: the new <<va, vb, vc, vd>>
G64(va, vb, vc, vd, x, y) ==
  Let(Add64(Add64(va, vb), x), LAMBDA a1 :
  Let(Rotr64(Xor64(vd, a1), 32), LAMBDA d1 :
  Let(Add64(vc, d1), LAMBDA c1 :
  Let(Rotr64(Xor64(vb, c1), 24), LAMBDA b1 :
  Let(Add64(Add64(a1, b1), y), LAMBDA a2 :
  Let(Rotr64(Xor64(d1, a2), 16), LAMBDA d2 :
  Let(Add64(c1, d2), LAMBDA c2 :
  <<a2, Rotr64(Xor64(b1, c2), 63), c2, d2>>)))))))

\* the last B2B_G call: the record of it in log
GCalled == res.op = "B2B_G"
LastG == self.log[Len(self.log)]

\* C22: a B2B_G call leaves in v[a,a+1], v[b,b+1], v[c,c+1], v[d,d+1] the four
\* words G computes on 64-bit words, with additions modulo 2^64 and right
\* rotations by 32, 24, 16 and 63 bits, from the words v held before and the
\* message words m[ix,ix+1] and m[iy,iy+1], and changes no other entry of v
\* and no entry of m.
C22_GOnHalves ==
  GCalled =>
    Let(LastG, LAMBDA e :
    Let(G64(Bits64(e.v, e.a), Bits64(e.v, e.b), Bits64(e.v, e.c),
            Bits64(e.v, e.d), Bits64(self.m, e.ix), Bits64(self.m, e.iy)),
        LAMBDA g :
      /\ Bits64(self.v, e.a) = g[1]
      /\ Bits64(self.v, e.b) = g[2]
      /\ Bits64(self.v, e.c) = g[3]
      /\ Bits64(self.v, e.d) = g[4]
      /\ \A i \in 0..31 :
           i \notin {e.a, e.a + 1, e.b, e.b + 1, e.c, e.c + 1, e.d, e.d + 1}
             => self.v[i] = e.v[i]))

\* a call whose first addition carries out of the low half but not out of the
\* high half
C22_Witness ==
  /\ GCalled
  /\ Len(self.log) = MaxG
  /\ LastG.v[LastG.a][2] + LastG.v[LastG.b][2] >= W16
  /\ LastG.v[LastG.a + 1][2] + LastG.v[LastG.b + 1][2] < W16 - 1
  /\ self.v[LastG.a] # LastG.v[LastG.a]

\* the sixteen 64-bit words of a vector of 32 uint32
Words64(v) == Tab([k \in 0..15 |-> Bits64(v, 2 * k)])

\* SIGMA[r][k], and the words G is applied to: the columns, then the diagonals
SIGMA(r, k) == SIGMA8[16 * r + k + 1]
GORDER ==
  << <<0, 4, 8, 12>>, <<1, 5, 9, 13>>, <<2, 6, 10, 14>>, <<3, 7, 11, 15>>,
     <<0, 5, 10, 15>>, <<1, 6, 11, 12>>, <<2, 7, 8, 13>>, <<3, 4, 9, 14>> >>

\* G on the words q of the vector V of sixteen 64-bit words
ApplyG64(V, q, x, y) ==
  Let(G64(V[q[1]], V[q[2]], V[q[3]], V[q[4]], x, y), LAMBDA g :
  [V EXCEPT ![q[1]] = g[1], ![q[2]] = g[2], ![q[3]] = g[3], ![q[4]] = g[4]])

RECURSIVE Round64(_, _, _, _)
\* the G applications i, i + 1, ..., 7 of round r
Round64(V, M, r, i) ==
  IF i = 8 THEN V
  ELSE Let(ApplyG64(V, GORDER[i + 1], M[SIGMA(r, 2 * i)], M[SIGMA(r, 2 * i + 1)]),
           LAMBDA W : Round64(W, M, r, i + 1))

RECURSIVE Rounds64(_, _, _)
\* the rounds r, r + 1, ..., 11
Rounds64(V, M, r) ==
  IF r = 12 THEN V
  ELSE Let(Round64(V, M, r, 0), LAMBDA W : Rounds64(W, M, r + 1))

\* the rounds of a compression have run
RoundsRun == res.op = "rounds"

\* C23: the mixing of a compression is twelve rounds, each G on the columns
\* (0,4,8,12), (1,5,9,13), (2,6,10,14), (3,7,11,15) and then on the diagonals
\* (0,5,10,15), (1,6,11,12), (2,7,8,13), (3,4,9,14), the i-th G of round r with
\* the message words SIGMA[r][2i] and SIGMA[r][2i+1]; every row of SIGMA is a
\* permutation of 0..15 and every index into m stays within its 32 entries.
C23_TwelveRounds ==
  /\ \A r \in 0..11 : {SIGMA(r, k) : k \in 0..15} = 0..15
  /\ \A i \in 0..191 : SIGMA82[i] >= 0 /\ SIGMA82[i] + 1 <= 31
  /\ RoundsRun =>
       Words64(self.v) = Rounds64(Words64(LastG.v), Words64(self.m), 0)

C23_Witness ==
  /\ RoundsRun
  /\ Len(self.log) = 1
  /\ self.m = LoadM(Tab([i \in 0..127 |-> MsgByte(i)]))
  /\ LastG.v[24] = XOR32(IV32[8], <<3, 0>>)
  /\ self.v # LastG.v

\* the counter t as a 64-bit word, and the complement of a 64-bit word
Counter64(t) ==
  Tab([n \in 0..63 |->
     IF n < 16 THEN ((t % W16) \div Pow2(n)) % 2
     ELSE IF n < 32 THEN ((t \div W16) \div Pow2(n - 16)) % 2
     ELSE 0])
Not64(x) == Tab([n \in 0..63 |-> 1 - x[n]])

\* the working vector a compression starts from, as sixteen 64-bit words:
\* h, then IV, word 12 xored with the counter and word 14 complemented when
\* the block is the last one
Start64(h, t, last) ==
  Tab([k \in 0..15 |->
     CASE k < 8 -> Bits64(h, 2 * k)
       [] k = 12 -> Xor64(Bits64(IV32, 8), Counter64(t))
       [] k = 14 -> IF last THEN Not64(Bits64(IV32, 12)) ELSE Bits64(IV32, 12)
       [] OTHER -> Bits64(IV32, 2 * (k - 8))])

\* a step in which the instance compresses one block, and the record of that
\* compression
CompressStep == alive /\ Len(self'.log) = Len(self.log) + 1
Compressed == self'.log[Len(self'.log)]

\* C24: a compression starts from v[0..7] = h, v[8..15] = IV with word 12 xored
\* with the counter and, for the last block only, word 14 complemented, and
\* from m reloaded from the buffer: what it leaves in v, m and h is what the
\* rounds and the feed-forward make of h, the block, the counter and the flag,
\* whatever the previous compression left in v and m.
C24_WorkVectorReinitialised ==
  [][CompressStep =>
       Let(Compressed, LAMBDA e :
       Let(InitV(self.h, e.t, e.last), LAMBDA v0 :
         /\ Words64(v0) = Start64(self.h, e.t, e.last)
         /\ self'.m = LoadM(e.blk)
         /\ self'.v = Rounds(v0, self'.m, 0)
         /\ \A i \in 0..15 :
              self'.h[i] = XOR32(XOR32(self.h[i], self'.v[i]), self'.v[i + 16])))
    ]_vars

C24_Witness ==
  /\ FirstRead
  /\ Len(self.log) = 2
  /\ Len(absorbed) = BLOCKBYTES + 3
  /\ self.log[2].last
  /\ ~self.log[1].last
  /\ self.m = LoadM(self.log[2].blk)
  /\ self.m # LoadM(self.log[1].blk)

\* the 64-bit word that the eight bytes of arr from offset k spell, least
\* significant byte first
LE64(arr, k) ==
  Tab([n \in 0..63 |-> (arr[k + (n \div 8)] \div Pow2(n % 8)) % 2])

\* C26: a constructed instance has h[i] = IV[i] xor the i-th little-endian 64-bit
\* word of its parameter block, i = 0..7; so the words 1, 2, 3 of h are those of
\* IV, and the words 4..7 too when neither salt nor personalisation is given.
\* (Words are pairs of uint32 here: word i is h[2i], h[2i+1].)
C26_InitialState ==
  (NewCalled /\ res.err = "ok") =>
    /\ \A k \in 0..7 :
         Bits64(self.h, 2 * k)
           = Xor64(Bits64(IV32, 2 * k), LE64(BlockOf(cfg), 8 * k))
    /\ \A i \in 2..7 : self.h[i] = IV32[i]
    /\ (~cfg.salt.has /\ ~cfg.personal.has)
         => \A i \in 8..15 : self.h[i] = IV32[i]

C26_Witness ==
  /\ NewCalled
  /\ res.err = "ok"
  /\ ~cfg.key.has
  /\ cfg.salt.has
  /\ cfg.personal.has
  /\ self.h[0] # IV32[0]
  /\ self.h[2] = IV32[2]
  /\ self.h[8] # IV32[8]
  /\ self.h[15] # IV32[15]


=============================================================================
